---- MODULE Spec2Model ----
(***************************************************************************)
(* A model of evalml's TargetDistributionDataCheck.validate and of the     *)
(* Estimator wrapper (predict / predict_proba / score).                    *)
(*                                                                         *)
(* Numbers.  A target value is a fixed-point number: the integer v stands  *)
(* for the real v / Scale, with Scale = 1000 * UnitsPerMilli, so that      *)
(* round(std, 3) is a real rounding of the standard deviation (to a whole  *)
(* number of thousandths) and not the identity.  All arithmetic below is   *)
(* exact rational arithmetic carried out on integers.                      *)
(* A p-value or test statistic q stands for the real q / PScale.           *)
(***************************************************************************)
EXTENDS Integers, Sequences, FiniteSets, TLC

\* ---------------------------------------------------------------- bounds
MaxLen == 3          \* longest target vector
MaxVal == 1          \* target values range over -1 .. MaxVal
UnitsPerMilli == 3   \* representable steps per 0.001
PScale == 10000      \* resolution of p-values and statistics

\* round(., 3): three decimals, i.e. thousandths
Thousand == 1000
Scale == Thousand * UnitsPerMilli
One == Scale

\* scipy.stats.shapiro raises ValueError("Data must be at least length 3.")
MinShapiroN == 3

\* ------------------------------------------------------- generic helpers
Abs(a) == IF a < 0 THEN 0 - a ELSE a

RECURSIVE SumSeq(_)
SumSeq(s) == IF s = <<>> THEN 0 ELSE Head(s) + SumSeq(Tail(s))

\* sum of (a - s[j])^2 over the elements of s
RECURSIVE SqDiffs(_, _)
SqDiffs(a, s) ==
  IF s = <<>> THEN 0 ELSE (a - Head(s)) * (a - Head(s)) + SqDiffs(a, Tail(s))

\* sum of (s[i] - s[j])^2 over the pairs i < j, which is n times the sum of the
\* squared deviations from the mean
RECURSIVE PairSq(_)
PairSq(s) == IF s = <<>> THEN 0 ELSE SqDiffs(Head(s), Tail(s)) + PairSq(Tail(s))

RECURSIVE MinSeq(_)
MinSeq(s) ==
  IF Len(s) = 1 THEN Head(s)
  ELSE LET m == MinSeq(Tail(s)) IN IF Head(s) < m THEN Head(s) ELSE m

\* any(y <= 0)
AnyNonPositive(s) == \E i \in 1..Len(s) : s[i] <= 0

\* Python / numpy round: to the nearest, a tie to the even neighbour.
\* RoundDiv(a, b) = round(a / b) for a >= 0, b > 0.
RoundDiv(a, b) ==
  LET q == a \div b
      r == a % b
  IN  IF 2 * r < b THEN q
      ELSE IF 2 * r > b THEN q + 1
      ELSE IF q % 2 = 0 THEN q ELSE q + 1

\* (r - 1/2)^2 <= d / m, on integers and without forming 4 * d
HalfBelow(r, d, m) == r = 0 \/ (r * r - r) <= (d - ((m + 3) \div 4)) \div m
HalfTie(r, d, m) == r > 0 /\ m % 4 = 0 /\ (r * r - r) * m = d - (m \div 4)

RECURSIVE GrowHi(_, _, _)
GrowHi(hi, d, m) == IF HalfBelow(hi, d, m) THEN GrowHi(2 * hi, d, m) ELSE hi

\* the largest r in lo .. hi-1 with HalfBelow(r); HalfBelow(lo) holds, HalfBelow(hi) fails
RECURSIVE Bisect(_, _, _, _)
Bisect(lo, hi, d, m) ==
  IF hi - lo <= 1 THEN lo
  ELSE LET mid == (lo + hi) \div 2
       IN  IF HalfBelow(mid, d, m) THEN Bisect(mid, hi, d, m) ELSE Bisect(lo, mid, d, m)

\* round(sqrt(d / m)) for d >= 0, m > 0, ties to even
RoundSqrt(d, m) ==
  LET up == Bisect(0, GrowHi(1, d, m), d, m)
  IN  IF HalfTie(up, d, m) /\ up % 2 = 1 THEN up - 1 ELSE up

\* ------------------------------------------------------------- the data
Values == -1..MaxVal

\* vectors of raw numbers, length 0 .. MaxLen
RawSamples == UNION {[1..n -> Values] : n \in 0..MaxLen}

\* woodwork logical types (type_string)
LogicalTypes == {"integer", "double", "categorical", "boolean"}

\* A Double target holds any representable value; an Integer, a categorical or a
\* boolean target holds whole numbers (category / truth codes for the latter two).
ValuesOf(ltype, s) == IF ltype = "double" THEN s ELSE [i \in 1..Len(s) |-> s[i] * One]

NoneTarget == [is_none |-> TRUE, ltype |-> "none", vals |-> <<>>]

Targets ==
  {NoneTarget} \cup
  {[is_none |-> FALSE, ltype |-> t, vals |-> ValuesOf(t, s)] : t \in LogicalTypes, s \in RawSamples}

\* evalml.problem_types.ProblemTypes
ProblemTypes == {"regression", "time series regression", "binary", "multiclass"}

Features == {"X1", "X2", "X3"}

\* ------------------------------------------------- result structures
CheckName == "TargetDistributionDataCheck"

\* DataCheckError(...).to_dict()
DataCheckError(message, code, details) ==
  [message |-> message, data_check_name |-> CheckName, level |-> "error",
   code |-> code, details |-> details]

\* DataCheckWarning(...).to_dict()
DataCheckWarning(message, code, details) ==
  [message |-> message, data_check_name |-> CheckName, level |-> "warning",
   code |-> code, details |-> details]

\* DataCheckAction(code, metadata).to_dict()
DataCheckAction(code, metadata) == [code |-> code, metadata |-> metadata]

\* one entry of a details mapping: key -> texts or key -> numbers
Detail(key, texts, nums) == [key |-> key, texts |-> texts, nums |-> nums]

\* a formatted message: the template and the values formatted into it
Message(template, args) == [template |-> template, args |-> args]

EmptyResults == [warnings |-> <<>>, errors |-> <<>>, actions |-> <<>>]

AddError(res, e) == [res EXCEPT !.errors = Append(@, e)]
AddWarning(res, w) == [res EXCEPT !.warnings = Append(@, w)]
AddAction(res, a) == [res EXCEPT !.actions = Append(@, a)]

\* --------------------------------------------- the pieces of validate
InSeq(x, s) == \E i \in 1..Len(s) : s[i] = x

SupportedProblemTypes == <<"regression", "time series regression">>

allowed_types == <<"integer", "double">>

TargetIsNoneError == DataCheckError(Message("Target is None", <<>>), "TARGET_IS_NONE", {})

UnsupportedProblemTypeError(pt) ==
  DataCheckError(
    Message("Problem type {} is unsupported. Valid problem types include: [ProblemTypes.REGRESSION, ProblemTypes.TIME_SERIES_REGRESSION]",
            <<pt>>),
    "TARGET_UNSUPPORTED_PROBLEM_TYPE",
    {Detail("unsupported_problem_type", <<pt>>, <<>>)})

\* variant: the error built with empty details
UnsupportedTypeError_NoDetails(ltype) ==
  DataCheckError(
    Message("Target is unsupported {} type. Valid Woodwork logical types include: {}",
            <<ltype>> \o allowed_types),
    "TARGET_UNSUPPORTED_TYPE",
    {})
\* l.91-99: details = {"unsupported_type": type_string}
UnsupportedTypeError(ltype) ==
  DataCheckError(
    Message("Target is unsupported {} type. Valid Woodwork logical types include: {}",
            <<ltype>> \o allowed_types),
    "TARGET_UNSUPPORTED_TYPE",
    {Detail("unsupported_type", <<ltype>>, <<>>)})

\* infer_feature_types(y): a new woodwork series with the same values
InferFeatureTypes(t) == [ltype |-> t.ltype, vals |-> t.vals]

is_supported_type(yw) == InSeq(yw.ltype, allowed_types)

\* shapiro(y).pvalue >= 0.05
\* variant: > in place of >=
IsNormal_Strict(p) == 100 * p > 5 * PScale
IsNormal(p) == 100 * p >= 5 * PScale

\* abs(y.min()) + 1
\* variant: the + 1 forgotten
ShiftAmount_NoOne(s) == Abs(MinSeq(s))
ShiftAmount(s) == Abs(MinSeq(s)) + One

\* y_new = y + abs(y.min()) + 1 if any(y <= 0) else y
ShiftTarget(s) ==
  IF AnyNonPositive(s) THEN [i \in 1..Len(s) |-> s[i] + ShiftAmount(s)] ELSE s

\* round(y.std(), 3) in thousandths; pandas std is the sample std (ddof = 1)
\* std^2 = PairSq / (n (n - 1)) in units^2, and 1000 * std = std in units / UnitsPerMilli
RoundedStd(s) ==
  RoundSqrt(PairSq(s), Len(s) * (Len(s) - 1) * UnitsPerMilli * UnitsPerMilli)

\* v < y_new.mean() + 3 * round(y.std(), 3), with r the rounded std in thousandths:
\* v/Scale < sum/(n*Scale) + 3*r/1000
\* variant: <= in place of <
BelowThreshold_Inclusive(v, ynew, r) ==
  Len(ynew) * v <= SumSeq(ynew) + 3 * r * Len(ynew) * UnitsPerMilli
BelowThreshold(v, ynew, r) ==
  Len(ynew) * v < SumSeq(ynew) + 3 * r * Len(ynew) * UnitsPerMilli

RECURSIVE Mask(_, _, _)
Mask(s, ynew, r) ==
  IF s = <<>> THEN <<>>
  ELSE IF BelowThreshold(Head(s), ynew, r)
       THEN <<Head(s)>> \o Mask(Tail(s), ynew, r)
       ELSE Mask(Tail(s), ynew, r)

\* y_new[y_new < (y_new.mean() + 3 * round(y.std(), 3))]; the std of fewer than
\* two values is NaN, and no value compares below NaN
DropOutliers(ynew, yorig) ==
  IF Len(yorig) < 2 THEN <<>> ELSE Mask(ynew, ynew, RoundedStd(yorig))

\* log_detected: shapiro_test_log.pvalue >= shapiro_test_og.pvalue
\* variant: > in place of >=
LogDetected_Strict(og, lg) == lg.pvalue > og.pvalue
LogDetected(og, lg) == lg.pvalue >= og.pvalue

\* round(q, 3) of a statistic or p-value, in thousandths
Round3(q) == RoundDiv(Thousand * q, PScale)

LognormalWarning(og) ==
  DataCheckWarning(
    Message("Target may have a lognormal distribution.", <<>>),
    "TARGET_LOGNORMAL_DISTRIBUTION",
    {Detail("shapiro-statistic/pvalue", <<>>, <<Round3(og.statistic), Round3(og.pvalue)>>)})

TransformTargetAction ==
  DataCheckAction("TRANSFORM_TARGET",
    [column |-> "None", is_target |-> TRUE, transformation_strategy |-> "lognormal"])

\* ------------------------------------ the normality-test primitive
\* scipy.stats.shapiro is a fixed but unknown function of its sample: its value on
\* a sample is chosen when the sample is first tested and is the same ever after.
PVals == {PScale \div 20 - 1, PScale \div 20, PScale \div 20 + 1}
StatVals == {PScale - PScale \div 20}

NoTest == [statistic |-> 0 - 1, pvalue |-> 0 - 1]

\* the sample handed to shapiro: the values, or their natural logarithm
Sample(isLog, s) == [log |-> isLog, vals |-> s]

ShapiroRaises(sample) == Len(sample.vals) < MinShapiroN

ShapiroResults(sample, known) ==
  IF \E e \in known : e.sample = sample
  THEN {e.test : e \in {k \in known : k.sample = sample}}
  ELSE {[statistic |-> w, pvalue |-> p] : w \in StatVals, p \in PVals}

\* ---------------------------------------------------------- the state
VARIABLES
  problem_type,  \* self.problem_type of the checker
  y,             \* the caller's target object
  X,             \* the features passed to the running / last call
  pc,            \* where the call stands
  y_ww,          \* the local y after infer_feature_types
  y_new,         \* the local y_new
  test_raw,      \* shapiro(y)
  shapiro_test_og,
  shapiro_test_log,
  results,       \* the local results dict; the return value once pc = "done"
  exc,           \* the exception that left validate, "" if none
  steps,         \* the steps the running / last call has executed, in order
  known,         \* the values of the normality test drawn so far
  entry,         \* the target and the problem type as they were when the call began
  calls,         \* how many calls of validate have begun (0, 1 or 2)
  prev,          \* how the first call ended
  estimator,     \* the constructed Estimator subclass instance
  est_call       \* the last call of an Estimator method

vars == <<problem_type, y, X, pc, y_ww, y_new, test_raw, shapiro_test_og,
          shapiro_test_log, results, exc, steps, known, entry, calls, prev,
          estimator, est_call>>

checker_vars == <<problem_type, y, X, pc, y_ww, y_new, test_raw, shapiro_test_og,
                  shapiro_test_log, results, exc, steps, known, entry, calls, prev>>

est_vars == <<estimator, est_call>>

NoSeries == [ltype |-> "none", vals |-> <<>>]
NoOutcome == [status |-> "none", results |-> EmptyResults, exc |-> "", X |-> "none"]
NoEstimator == [name |-> "none", component_type |-> "none", component_obj |-> "none"]
NoEstCall == [method |-> "none", X |-> "none", y |-> "none", inner |-> "none", ret |-> "none"]

\* TargetDistributionDataCheck(problem_type), and a caller holding a target
CheckerInit ==
  /\ problem_type \in ProblemTypes
  /\ y \in Targets
  /\ X = "none"
  /\ pc = "idle"
  /\ y_ww = NoSeries
  /\ y_new = <<>>
  /\ test_raw = NoTest
  /\ shapiro_test_og = NoTest
  /\ shapiro_test_log = NoTest
  /\ results = EmptyResults
  /\ exc = ""
  /\ steps = <<>>
  /\ known = {}
  /\ entry = [y |-> y, problem_type |-> problem_type]
  /\ calls = 0
  /\ prev = NoOutcome

Init == CheckerInit /\ estimator = NoEstimator /\ est_call = NoEstCall

Outcome == [status |-> pc, results |-> results, exc |-> exc, X |-> X]

\* validate(X, y) is entered: results = {"warnings": [], "errors": [], "actions": []}
Enter(Xv) ==
  /\ X' = Xv
  /\ pc' = "check_none"
  /\ y_ww' = NoSeries
  /\ y_new' = <<>>
  /\ test_raw' = NoTest
  /\ shapiro_test_og' = NoTest
  /\ shapiro_test_log' = NoTest
  /\ results' = EmptyResults
  /\ exc' = ""
  /\ steps' = <<"enter">>
  /\ entry' = [y |-> y, problem_type |-> problem_type]
  /\ calls' = calls + 1
  /\ UNCHANGED <<problem_type, y, known, estimator, est_call>>

\* the first call
Call ==
  /\ pc = "idle"
  /\ calls = 0
  /\ \E Xv \in Features : Enter(Xv)
  /\ prev' = prev

\* a second call on the same checker with the same target, X free
CallAgain ==
  /\ pc \in {"done", "raised"}
  /\ calls = 1
  /\ \E Xv \in Features : Enter(Xv)
  /\ prev' = Outcome

\* if y is None: append TARGET_IS_NONE, return
\* variant: the problem type tested before the null target
CheckNone_ProblemTypeFirst ==
  /\ pc = "check_none"
  /\ steps' = Append(steps, "check_none")
  /\ IF ~InSeq(problem_type, SupportedProblemTypes)
     THEN /\ results' = AddError(results, UnsupportedProblemTypeError(problem_type))
          /\ pc' = "done"
     ELSE IF y.is_none
     THEN /\ results' = AddError(results, TargetIsNoneError)
          /\ pc' = "done"
     ELSE /\ results' = results
          /\ pc' = "check_problem_type"
  /\ UNCHANGED <<problem_type, y, X, y_ww, y_new, test_raw, shapiro_test_og,
                 shapiro_test_log, exc, known, entry, calls, prev, estimator, est_call>>
CheckNone ==
  /\ pc = "check_none"
  /\ steps' = Append(steps, "check_none")
  /\ IF y.is_none
     THEN /\ results' = AddError(results, TargetIsNoneError)
          /\ pc' = "done"
     ELSE /\ results' = results
          /\ pc' = "check_problem_type"
  /\ UNCHANGED <<problem_type, y, X, y_ww, y_new, test_raw, shapiro_test_og,
                 shapiro_test_log, exc, known, entry, calls, prev, estimator, est_call>>

\* if self.problem_type not in [REGRESSION, TIME_SERIES_REGRESSION]: append, return
\* variant: the error appended without the return
CheckProblemType_NoReturn ==
  /\ pc = "check_problem_type"
  /\ steps' = Append(steps, "check_problem_type")
  /\ results' = IF ~InSeq(problem_type, SupportedProblemTypes)
                THEN AddError(results, UnsupportedProblemTypeError(problem_type))
                ELSE results
  /\ pc' = "infer_types"
  /\ UNCHANGED <<problem_type, y, X, y_ww, y_new, test_raw, shapiro_test_og,
                 shapiro_test_log, exc, known, entry, calls, prev, estimator, est_call>>
CheckProblemType ==
  /\ pc = "check_problem_type"
  /\ steps' = Append(steps, "check_problem_type")
  /\ IF ~InSeq(problem_type, SupportedProblemTypes)
     THEN /\ results' = AddError(results, UnsupportedProblemTypeError(problem_type))
          /\ pc' = "done"
     ELSE /\ results' = results
          /\ pc' = "infer_types"
  /\ UNCHANGED <<problem_type, y, X, y_ww, y_new, test_raw, shapiro_test_og,
                 shapiro_test_log, exc, known, entry, calls, prev, estimator, est_call>>

\* y = infer_feature_types(y); if not is_supported_type: append, return
InferTypes ==
  /\ pc = "infer_types"
  /\ steps' = Append(steps, "infer_types")
  /\ y_ww' = InferFeatureTypes(y)
  /\ IF ~is_supported_type(y_ww')
     THEN /\ results' = AddError(results, UnsupportedTypeError(y_ww'.ltype))
          /\ pc' = "done"
     ELSE /\ results' = results
          /\ pc' = "shapiro_raw"
  /\ UNCHANGED <<problem_type, y, X, y_new, test_raw, shapiro_test_og,
                 shapiro_test_log, exc, known, entry, calls, prev, estimator, est_call>>

\* if shapiro(y).pvalue >= 0.05: return results
ShapiroRaw ==
  /\ pc = "shapiro_raw"
  /\ steps' = Append(steps, "shapiro_raw")
  /\ LET sample == Sample(FALSE, y_ww.vals)
     IN  IF ShapiroRaises(sample)
         THEN /\ pc' = "raised"
              /\ exc' = "ValueError"
              /\ UNCHANGED <<test_raw, known>>
         ELSE \E t \in ShapiroResults(sample, known) :
                /\ test_raw' = t
                /\ known' = known \cup {[sample |-> sample, test |-> t]}
                /\ pc' = IF IsNormal(t.pvalue) THEN "done" ELSE "shift"
                /\ exc' = exc
  /\ UNCHANGED <<problem_type, y, X, y_ww, y_new, shapiro_test_og, shapiro_test_log,
                 results, entry, calls, prev, estimator, est_call>>

\* if any(y <= 0): y_new = y + abs(y.min()) + 1 else: y_new = y
\* variant: the shift written into the caller's series (y += ...)
Shift_InPlace ==
  /\ pc = "shift"
  /\ steps' = Append(steps, "shift")
  /\ y_new' = ShiftTarget(y_ww.vals)
  /\ y' = [y EXCEPT !.vals = y_new']
  /\ pc' = "trim"
  /\ UNCHANGED <<problem_type, X, y_ww, test_raw, shapiro_test_og, shapiro_test_log,
                 results, exc, known, entry, calls, prev, estimator, est_call>>
Shift ==
  /\ pc = "shift"
  /\ steps' = Append(steps, "shift")
  /\ y_new' = ShiftTarget(y_ww.vals)
  /\ pc' = "trim"
  /\ UNCHANGED <<problem_type, y, X, y_ww, test_raw, shapiro_test_og, shapiro_test_log,
                 results, exc, known, entry, calls, prev, estimator, est_call>>

\* y_new = y_new[y_new < (y_new.mean() + 3 * round(y.std(), 3))]
Trim ==
  /\ pc = "trim"
  /\ steps' = Append(steps, "trim")
  /\ y_new' = DropOutliers(y_new, y_ww.vals)
  /\ pc' = "shapiro_og"
  /\ UNCHANGED <<problem_type, y, X, y_ww, test_raw, shapiro_test_og, shapiro_test_log,
                 results, exc, known, entry, calls, prev, estimator, est_call>>

\* shapiro_test_og = shapiro(y_new)
ShapiroOg ==
  /\ pc = "shapiro_og"
  /\ steps' = Append(steps, "shapiro_og")
  /\ LET sample == Sample(FALSE, y_new)
     IN  IF ShapiroRaises(sample)
         THEN /\ pc' = "raised"
              /\ exc' = "ValueError"
              /\ UNCHANGED <<shapiro_test_og, known>>
         ELSE \E t \in ShapiroResults(sample, known) :
                /\ shapiro_test_og' = t
                /\ known' = known \cup {[sample |-> sample, test |-> t]}
                /\ pc' = "shapiro_log"
                /\ exc' = exc
  /\ UNCHANGED <<problem_type, y, X, y_ww, y_new, test_raw, shapiro_test_log,
                 results, entry, calls, prev, estimator, est_call>>

\* shapiro_test_log = shapiro(np.log(y_new))
ShapiroLog ==
  /\ pc = "shapiro_log"
  /\ steps' = Append(steps, "shapiro_log")
  /\ LET sample == Sample(TRUE, y_new)
     IN  IF ShapiroRaises(sample)
         THEN /\ pc' = "raised"
              /\ exc' = "ValueError"
              /\ UNCHANGED <<shapiro_test_log, known>>
         ELSE \E t \in ShapiroResults(sample, known) :
                /\ shapiro_test_log' = t
                /\ known' = known \cup {[sample |-> sample, test |-> t]}
                /\ pc' = "decide"
                /\ exc' = exc
  /\ UNCHANGED <<problem_type, y, X, y_ww, y_new, test_raw, shapiro_test_og,
                 results, entry, calls, prev, estimator, est_call>>

\* if log_detected: append the warning and the action; return results
Decide ==
  /\ pc = "decide"
  /\ steps' = Append(steps, "decide")
  /\ results' =
       IF LogDetected(shapiro_test_og, shapiro_test_log)
       THEN AddAction(AddWarning(results, LognormalWarning(shapiro_test_og)),
                      TransformTargetAction)
       ELSE results
  /\ pc' = "done"
  /\ UNCHANGED <<problem_type, y, X, y_ww, y_new, test_raw, shapiro_test_og,
                 shapiro_test_log, exc, known, entry, calls, prev, estimator, est_call>>

Next ==
  \/ Call
  \/ CallAgain
  \/ CheckNone
  \/ CheckProblemType
  \/ InferTypes
  \/ ShapiroRaw
  \/ Shift
  \/ Trim
  \/ ShapiroOg
  \/ ShapiroLog
  \/ Decide

Spec == Init /\ [][Next]_vars

\* ------------------------------------------------ the Estimator wrapper
\* the five subclasses: name, component_type and the wrapped library object
Estimators ==
  {[name |-> "Logistic Regression Classifier", component_type |-> "classifier",
    component_obj |-> "LogisticRegression"],
   [name |-> "Random Forest Classifier", component_type |-> "classifier",
    component_obj |-> "SKRandomForestClassifier"],
   [name |-> "XGBoost Classifier", component_type |-> "classifier",
    component_obj |-> "XGBClassifier"],
   [name |-> "Random Forest Regressor", component_type |-> "regressor",
    component_obj |-> "SKRandomForestRegressor"],
   [name |-> "Linear Regressor", component_type |-> "regressor",
    component_obj |-> "SKLinearRegression"]}

Labels == {"y1", "y2"}

\* what the wrapped object's method hands back
InnerPredict == {"labels_a", "labels_b"}
InnerProba == {"proba_a", "proba_b"}
InnerScore == {"score_a", "score_b"}

\* a Python function that ends without a return statement returns None
PyNone == "None"

EstimatorInit ==
  /\ problem_type = "regression"
  /\ y = NoneTarget
  /\ X = "none"
  /\ pc = "idle"
  /\ y_ww = NoSeries
  /\ y_new = <<>>
  /\ test_raw = NoTest
  /\ shapiro_test_og = NoTest
  /\ shapiro_test_log = NoTest
  /\ results = EmptyResults
  /\ exc = ""
  /\ steps = <<>>
  /\ known = {}
  /\ entry = [y |-> y, problem_type |-> problem_type]
  /\ calls = 0
  /\ prev = NoOutcome
  /\ estimator \in Estimators
  /\ est_call = NoEstCall

\* Estimator.predict(X): self._component_obj.predict(X), and no return
Predict ==
  /\ estimator # NoEstimator
  /\ \E Xv \in Features, r \in InnerPredict :
       est_call' = [method |-> "predict", X |-> Xv, y |-> "none", inner |-> r, ret |-> PyNone]
  /\ UNCHANGED <<checker_vars, estimator>>

\* Estimator.predict_proba(X): self._component_obj.predict_proba(X), and no return;
\* the wrapped regressors have no predict_proba, and the AttributeError propagates
PredictProba ==
  /\ estimator # NoEstimator
  /\ \E Xv \in Features, r \in InnerProba :
       est_call' =
         IF estimator.component_type = "classifier"
         THEN [method |-> "predict_proba", X |-> Xv, y |-> "none", inner |-> r, ret |-> PyNone]
         ELSE [method |-> "predict_proba", X |-> Xv, y |-> "none",
               inner |-> "AttributeError", ret |-> "AttributeError"]
  /\ UNCHANGED <<checker_vars, estimator>>

\* Estimator.score(X, y, other_objectives=None): self._component_obj.score(X, y), no return
Score ==
  /\ estimator # NoEstimator
  /\ \E Xv \in Features, yv \in Labels, r \in InnerScore :
       est_call' = [method |-> "score", X |-> Xv, y |-> yv, inner |-> r, ret |-> PyNone]
  /\ UNCHANGED <<checker_vars, estimator>>

EstimatorNext ==
  \/ Predict
  \/ PredictProba
  \/ Score

EstimatorSpec == EstimatorInit /\ [][EstimatorNext]_vars

\* =================================================================== claims
ErrorCodes == [i \in 1..Len(results.errors) |-> results.errors[i].code]
WarningCodes == [i \in 1..Len(results.warnings) |-> results.warnings[i].code]
Returned == pc = "done"
Ended == pc \in {"done", "raised"}
Ran(step) == \E i \in 1..Len(steps) : steps[i] = step

\* the code of the earliest failing validation of the call's inputs, "none" if all pass
FirstFailure ==
  IF y.is_none THEN "TARGET_IS_NONE"
  ELSE IF problem_type \notin {"regression", "time series regression"}
       THEN "TARGET_UNSUPPORTED_PROBLEM_TYPE"
  ELSE IF y.ltype \notin {"integer", "double"} THEN "TARGET_UNSUPPORTED_TYPE"
  ELSE "none"

\* C1: a call whose inputs fail one or more validations ends by returning a result
\* with exactly one error, whose code is that of the earliest failing validation
\* in the order null target, problem type, target type.
C1_FirstFailureWins ==
  (Ended /\ FirstFailure # "none") => (Returned /\ ErrorCodes = <<FirstFailure>>)

C1_Witness ==
  Returned /\ y.is_none /\ problem_type = "binary" /\ ErrorCodes = <<"TARGET_IS_NONE">>

\* the steps a call has executed when it appends the error with the given code
StepsUpTo(code) ==
  IF code = "TARGET_IS_NONE" THEN <<"enter", "check_none">>
  ELSE IF code = "TARGET_UNSUPPORTED_PROBLEM_TYPE"
       THEN <<"enter", "check_none", "check_problem_type">>
  ELSE <<"enter", "check_none", "check_problem_type", "infer_types">>

\* C2: in every state, if the errors list is non-empty then the warnings and the
\* actions are empty, the call has returned, and the step that appended the error
\* is the last step executed: no normality test, shift or trim has run.
C2_ErrorsExclusive ==
  Len(results.errors) > 0 =>
    /\ Returned
    /\ results.warnings = <<>>
    /\ results.actions = <<>>
    /\ Len(results.errors) = 1
    /\ steps = StepsUpTo(results.errors[1].code)
    /\ test_raw = NoTest /\ shapiro_test_og = NoTest /\ shapiro_test_log = NoTest
    /\ y_new = <<>>

C2_Witness ==
  Returned /\ ErrorCodes = <<"TARGET_UNSUPPORTED_TYPE">> /\ Len(y.vals) = MaxLen

\* C3: no call of validate ends with an exception leaving it.
C3_NoExceptionPropagates == pc # "raised" /\ exc = ""

\* C4 as stated: the TARGET_UNSUPPORTED_TYPE error's details hold the detected type
\* and the list of allowed types.
C4_DetailsHoldAllowedTypes ==
  (Returned /\ FirstFailure = "TARGET_UNSUPPORTED_TYPE") =>
    /\ ErrorCodes = <<"TARGET_UNSUPPORTED_TYPE">>
    /\ \E d \in results.errors[1].details : d.texts = <<y.ltype>>
    /\ \E d \in results.errors[1].details : d.texts = <<"integer", "double">>

\* C4 amended: a non-null target of unsupported type on a supported problem type
\* yields exactly one error TARGET_UNSUPPORTED_TYPE whose details hold only the
\* detected type, under the key unsupported_type; the allowed types are formatted
\* into the message.
C4_DetailsHoldDetectedType ==
  (Returned /\ FirstFailure = "TARGET_UNSUPPORTED_TYPE") =>
    /\ ErrorCodes = <<"TARGET_UNSUPPORTED_TYPE">>
    /\ results.errors[1].details =
         {[key |-> "unsupported_type", texts |-> <<y.ltype>>, nums |-> <<>>]}
    /\ results.errors[1].message.args = <<y.ltype, "integer", "double">>
    /\ results.warnings = <<>> /\ results.actions = <<>>

C4_Witness ==
  Returned /\ FirstFailure = "TARGET_UNSUPPORTED_TYPE" /\ y.ltype = "categorical"
  /\ Len(results.errors) = 1

\* the call passed the validations and its raw p-value is below 0.05
RawBelowAlpha == test_raw # NoTest /\ 100 * test_raw.pvalue < 5 * PScale

\* C5: a returned result has as many warnings as actions; and when the raw p-value
\* is below 0.05, the result holds the one warning TARGET_LOGNORMAL_DISTRIBUTION and
\* the one action TRANSFORM_TARGET exactly if the p-value of the log of the trimmed
\* series is at least that of the trimmed series, and neither otherwise.
C5_LognormalFlag ==
  Returned =>
    /\ Len(results.warnings) = Len(results.actions)
    /\ RawBelowAlpha =>
         /\ results.errors = <<>>
         /\ IF shapiro_test_log.pvalue >= shapiro_test_og.pvalue
            THEN /\ WarningCodes = <<"TARGET_LOGNORMAL_DISTRIBUTION">>
                 /\ results.actions =
                      <<[code |-> "TRANSFORM_TARGET",
                         metadata |-> [column |-> "None", is_target |-> TRUE,
                                       transformation_strategy |-> "lognormal"]]>>
            ELSE results.warnings = <<>> /\ results.actions = <<>>

C5_Witness ==
  Returned /\ RawBelowAlpha /\ shapiro_test_log.pvalue = shapiro_test_og.pvalue
  /\ Len(results.warnings) = 1 /\ Len(results.actions) = 1

C7_PureAndDeterministic ==
  /\ y = entry.y
  /\ problem_type = entry.problem_type
  /\ (calls = 2 /\ Ended) =>
       /\ pc = prev.status
       /\ results = prev.results
       /\ exc = prev.exc

C7_Witness ==
  calls = 2 /\ Returned /\ X # prev.X /\ Len(results.warnings) = 1 /\ Ran("shift")
  /\ y_new # y.vals

\* C8: a call of predict, predict_proba or score hands back what the wrapped
\* object's method returned.
C8_ReturnsInnerResult ==
  est_call.method # "none" => est_call.ret = est_call.inner

\* C9: right after the shifting step, if some value of the target is <= 0 then
\* every value has grown by abs(min) + 1, every shifted value is strictly positive
\* and the smallest is exactly 1; otherwise the series is the target unchanged.
\* From then on the series (and so the series handed to the logarithm) holds only
\* strictly positive values.
C9_ShiftMakesPositive ==
  LET orig == y_ww.vals
      lowest == CHOOSE v \in {orig[i] : i \in 1..Len(orig)} :
                  \A j \in 1..Len(orig) : v <= orig[j]
  IN  /\ pc = "trim" =>
           IF \E i \in 1..Len(orig) : orig[i] <= 0
           THEN /\ Len(y_new) = Len(orig)
                /\ \A i \in 1..Len(orig) : y_new[i] = orig[i] + (0 - lowest) + One
                /\ \A i \in 1..Len(y_new) : y_new[i] > 0
                /\ \E i \in 1..Len(y_new) : y_new[i] = One
                /\ \A i \in 1..Len(y_new) : y_new[i] >= One
           ELSE y_new = orig
      /\ Ran("shift") => \A i \in 1..Len(y_new) : y_new[i] > 0

C9_Witness ==
  /\ pc = "trim"
  /\ \E i \in 1..Len(y_ww.vals) : y_ww.vals[i] < 0
  /\ \E i \in 1..Len(y_ww.vals) : y_ww.vals[i] > 0

\* whether r is 1000 * std(s) rounded to the nearest whole number, with
\* std(s)^2 = PairSq(s) / (n (n - 1)) in units^2: (2r - 1)^2 <= 4 q <= (2r + 1)^2
\* for q = PairSq(s) / (n (n - 1) UnitsPerMilli^2)
IsRoundedStd(r, s) ==
  LET m == Len(s) * (Len(s) - 1) * UnitsPerMilli * UnitsPerMilli
      d == PairSq(s)
      lo == 4 * (d \div m) + (4 * (d % m)) \div m
      hi == 4 * (d \div m) + (4 * (d % m) + m - 1) \div m
  IN  /\ r >= 0
      /\ (r = 0 \/ (2 * r - 1) * (2 * r - 1) <= lo)
      /\ hi <= (2 * r + 1) * (2 * r + 1)

====
